---- MODULE Spec2Model ----
(***************************************************************************)
(* G5 spaced-repetition schedule generator: Set, G5Schedule and the CLI    *)
(* (src/g5/models/set.py, src/g5/models/schedule.py, src/g5/cli.py).       *)
(*                                                                         *)
(* Representation.                                                         *)
(*   - A datetime at midnight (what strptime returns) is its proleptic     *)
(*     Gregorian ordinal, an integer; adding timedelta(days=n) adds n.     *)
(*   - A date string is the tuple of its numeric fields: "%Y-%m-%d" is     *)
(*     <<Y, M, D>> and "%d-%m-%Y" is <<D, M, Y>>.  Fields are fixed width  *)
(*     for the four-digit years modelled, so string order on "%Y-%m-%d"    *)
(*     is the lexicographic order of the tuple.                            *)
(*   - Any other string is the sequence of its characters.                 *)
(*   - Python's None and an optional value are <<>> and <<v>>.             *)
(***************************************************************************)
EXTENDS Integers, Sequences, FiniteSets, TLC

VARIABLES
    start_date,   \* G5Schedule.start_date (ordinal); 0 while no schedule exists
    sets,         \* G5Schedule.sets: sequence of [name, learn_date]
    json_file,    \* the data file at the output path: <<>> absent, <<dict>> written
    ics_file,     \* the calendar file: <<>> absent, <<events>> exported
    result,       \* the last call and what it returned
    pc,           \* position of the CLI process in main()
    args,         \* the parsed command line of the current CLI run
    prev_run      \* the generation call before the last that returned a table

vars == <<start_date, sets, json_file, ics_file, result, pc, args, prev_run>>

-----------------------------------------------------------------------------
(* Bounds of the model *)

MaxSets == 3
MaxDayOffset == 2

\* starting set numbers tried on a schedule object: 1 (the default, padded
\* to "01") and 99, where the numbers that follow are wider than 2 digits
SetNumbers == {1, 99}

\* the "%d-%m-%Y" dates given on the command line: two that parse, a day
\* that is not in its month, a month 13
CliDateInputs == {<<7, 4, 2025>>, <<28, 2, 2024>>, <<29, 2, 2025>>, <<7, 13, 2025>>}

\* the set numbers given on the command line: 0 is not a set number
CliSetNumbers == {0, 1, 2}

\* "%d-%m-%Y" dates of a course run on consecutive days over a year change
CourseDateInputs == {<<30, 12, 2025>>, <<31, 12, 2025>>, <<1, 1, 2026>>}

\* the largest number of new sets asked of one generation call
MaxCount == 2

\* the set numbers the runs of a course start with
CourseSetNumbers == {1, 2, 3}

\* the random streams uuid.uuid4() draws from in a process
UuidStreams == {"a", "b"}

\* "%d-%m-%Y" start dates of the schedule objects: the specification's
\* example, a leap day inside the review window, a year change inside it
GoodDateInputs == {<<7, 4, 2025>>, <<28, 2, 2024>>, <<25, 12, 2025>>}

-----------------------------------------------------------------------------
(* Strings *)

None == <<>>
Some(v) == <<v>>

DigitChars == <<"0", "1", "2", "3", "4", "5", "6", "7", "8", "9">>

RECURSIVE Str(_)
\* str(n) for n >= 0: the decimal digits of n
Str(n) == IF n < 10 THEN <<DigitChars[n + 1]>>
          ELSE Str(n \div 10) \o <<DigitChars[(n % 10) + 1]>>

\* f"{n:02d}": the decimal digits of n, zero-padded on the left to width 2
Format02d(n) == IF Len(Str(n)) < 2 THEN <<"0">> \o Str(n) ELSE Str(n)

RECURSIVE Join(_, _)
\* sep.join(parts)
Join(sep, parts) ==
    IF parts = <<>> THEN <<>>
    ELSE IF Len(parts) = 1 THEN parts[1]
    ELSE parts[1] \o sep \o Join(sep, Tail(parts))

-----------------------------------------------------------------------------
(* Dates: datetime.strptime, datetime.strftime, datetime + timedelta *)

MonthAbbr == <<"Jan", "Feb", "Mar", "Apr", "May", "Jun",
               "Jul", "Aug", "Sep", "Oct", "Nov", "Dec">>

DaysInMonthTable == <<31, 28, 31, 30, 31, 30, 31, 31, 30, 31, 30, 31>>

IsLeap(y) == y % 4 = 0 /\ (y % 100 # 0 \/ y % 400 = 0)

DaysInMonth(y, m) == IF m = 2 /\ IsLeap(y) THEN 29 ELSE DaysInMonthTable[m]

RECURSIVE DaysBeforeMonth(_, _)
DaysBeforeMonth(y, m) ==
    IF m = 1 THEN 0 ELSE DaysBeforeMonth(y, m - 1) + DaysInMonth(y, m - 1)

DaysBeforeYear(y) ==
    (y - 1) * 365 + (y - 1) \div 4 - (y - 1) \div 100 + (y - 1) \div 400

\* the ordinal of year y, month m, day d (0001-01-01 is day 1)
YmdToOrd(y, m, d) == DaysBeforeYear(y) + DaysBeforeMonth(y, m) + d

\* the year holding ordinal n
YearOfOrd(n) ==
    LET n0   == n - 1
        n400 == n0 \div 146097
        r400 == n0 % 146097
        n100 == r400 \div 36524
        r100 == r400 % 36524
        n4   == r100 \div 1461
        r4   == r100 % 1461
        n1   == r4 \div 365
        y    == n400 * 400 + 1 + n100 * 100 + n4 * 4 + n1
    IN IF n1 = 4 \/ n100 = 4 THEN y - 1 ELSE y

RECURSIVE MonthOfDay(_, _, _)
\* the month of year y holding its k-th day (k from 1), searching from month m
MonthOfDay(y, k, m) ==
    IF k <= DaysBeforeMonth(y, m) + DaysInMonth(y, m) THEN m
    ELSE MonthOfDay(y, k, m + 1)

\* the fields <<Y, M, D>> of ordinal n
OrdToYmd(n) ==
    LET y == YearOfOrd(n)
        k == n - DaysBeforeYear(y)
        m == MonthOfDay(y, k, 1)
    IN <<y, m, k - DaysBeforeMonth(y, m)>>

\* date.strftime("%Y-%m-%d")
StrftimeISO(date) == OrdToYmd(date)

\* datetime.strptime(s, "%Y-%m-%d") of a string strftime produced
StrptimeISO(s) == YmdToOrd(s[1], s[2], s[3])

\* whether datetime.strptime(s, "%d-%m-%Y") succeeds: a four-digit year (the
\* inputs write years without leading zeros), a month 1..12 and a day of
\* that month
ParsesDMY(s) ==
    /\ s[3] \in 1000..9999
    /\ s[2] \in 1..12
    /\ s[1] >= 1
    /\ s[1] <= DaysInMonth(s[3], s[2])

\* datetime.strptime(s, "%d-%m-%Y") where it succeeds
StrptimeDMY(s) == YmdToOrd(s[3], s[2], s[1])

\* an order that compares month and day only
IsoLess_month_day(a, b) ==
    \/ a[2] < b[2]
    \/ a[2] = b[2] /\ a[3] < b[3]

\* the string order of two "%Y-%m-%d" strings
IsoLess(a, b) ==
    \/ a[1] < b[1]
    \/ a[1] = b[1] /\ a[2] < b[2]
    \/ a[1] = b[1] /\ a[2] = b[2] /\ a[3] < b[3]

\* sorted(keys) for "%Y-%m-%d" strings: ascending string order
RECURSIVE SortedKeys(_)
SortedKeys(S) ==
    IF S = {} THEN <<>>
    ELSE LET m == CHOOSE x \in S : \A y \in S \ {x} : IsoLess(x, y)
         IN <<m>> \o SortedKeys(S \ {m})

-----------------------------------------------------------------------------
(* Set: src/g5/models/set.py *)

review_days == <<2, 4, 8, 15>>

\* Set(name, learn_date)
Set_init(name, learn_date) == [name |-> name, learn_date |-> learn_date]

get_learning_event(s) ==
    [date |-> s.learn_date, action_type |-> "learn", set_name |-> s.name]

RECURSIVE ReviewEventsFrom_offset_as_days(_, _)
\* get_review_events adding the 1-indexed day itself (the "- 1" forgotten)
ReviewEventsFrom_offset_as_days(s, i) ==
    IF i >= Len(review_days) THEN <<>>
    ELSE <<[date          |-> s.learn_date + review_days[i + 1],
            action_type   |-> "review",
            set_name      |-> s.name,
            review_number |-> i + 1]>>
         \o ReviewEventsFrom_offset_as_days(s, i + 1)

RECURSIVE ReviewEventsFrom(_, _)
\* the loop of get_review_events from index i (enumerate counts from 0)
ReviewEventsFrom(s, i) ==
    IF i >= Len(review_days) THEN <<>>
    ELSE <<[date          |-> s.learn_date + (review_days[i + 1] - 1),
            action_type   |-> "review",
            set_name      |-> s.name,
            review_number |-> i + 1]>>
         \o ReviewEventsFrom(s, i + 1)

get_review_events(s) == ReviewEventsFrom(s, 0)

get_all_events(s) == <<get_learning_event(s)>> \o get_review_events(s)

\* to_dict adding the 1-indexed review day itself to the learn date
Set_to_dict_offset_as_days(s) ==
    [set         |-> s.name,
     learned_on  |-> StrftimeISO(s.learn_date),
     review_days |-> [j \in 1..Len(review_days) |->
                        StrftimeISO(s.learn_date + review_days[j])]]

Set_to_dict(s) ==
    [set         |-> s.name,
     learned_on  |-> StrftimeISO(s.learn_date),
     review_days |-> [j \in 1..Len(review_days) |->
                        StrftimeISO(s.learn_date + (review_days[j] - 1))]]

\* Set.from_dict(data): the name and the parsed "learned_on"; the stored
\* review dates are not read
Set_from_dict(data) == Set_init(data.set, StrptimeISO(data.learned_on))

-----------------------------------------------------------------------------
(* G5Schedule: src/g5/models/schedule.py *)

\* f"Set {set_index:02d}"
SetName(set_index) == <<"S", "e", "t", " ">> \o Format02d(set_index)

\* f"Set {set_index}": the number not padded
SetName_unpadded(set_index) == <<"S", "e", "t", " ">> \o Str(set_index)

RECURSIVE AddSetsFrom_unpadded(_, _, _, _, _)
\* add_new_sets naming the sets without zero padding
AddSetsFrom_unpadded(ss, start, new_sets_count, starting_set_number, i) ==
    IF i >= new_sets_count THEN ss
    ELSE AddSetsFrom_unpadded(
            Append(ss, Set_init(SetName_unpadded(starting_set_number + i),
                                start + i)),
            start, new_sets_count, starting_set_number, i + 1)

RECURSIVE AddSetsFrom_day_after(_, _, _, _, _)
\* add_new_sets with the first set learned the day after the start date
AddSetsFrom_day_after(ss, start, new_sets_count, starting_set_number, i) ==
    IF i >= new_sets_count THEN ss
    ELSE AddSetsFrom_day_after(
            Append(ss, Set_init(SetName(starting_set_number + i),
                                start + i + 1)),
            start, new_sets_count, starting_set_number, i + 1)

RECURSIVE AddSetsFrom_same_day(_, _, _, _, _)
\* add_new_sets with every set learned on the start date
AddSetsFrom_same_day(ss, start, new_sets_count, starting_set_number, i) ==
    IF i >= new_sets_count THEN ss
    ELSE AddSetsFrom_same_day(
            Append(ss, Set_init(SetName(starting_set_number + i), start)),
            start, new_sets_count, starting_set_number, i + 1)

RECURSIVE AddSetsFrom(_, _, _, _, _)
\* the loop of add_new_sets from index i: range(new_sets_count) is empty
\* when new_sets_count <= 0
AddSetsFrom(ss, start, new_sets_count, starting_set_number, i) ==
    IF i >= new_sets_count THEN ss
    ELSE AddSetsFrom(
            Append(ss, Set_init(SetName(starting_set_number + i), start + i)),
            start, new_sets_count, starting_set_number, i + 1)

\* self.sets after add_new_sets(new_sets_count, starting_set_number)
add_new_sets(ss, start, new_sets_count, starting_set_number) ==
    AddSetsFrom(ss, start, new_sets_count, starting_set_number, 0)

\* f"{set_name} (R{review_number})"
ReviewText(event) ==
    event.set_name \o <<" ", "(", "R">> \o Str(event.review_number) \o <<")">>

\* the loop body storing the review text in place of the list
PutEvent_review_overwrites(events_by_date, event) ==
    LET date_str == StrftimeISO(event.date)
        d1 == IF date_str \in DOMAIN events_by_date
              THEN events_by_date
              ELSE events_by_date @@
                   (date_str :> [NewWords |-> None, Reviews |-> <<>>])
    IN IF event.action_type = "learn"
       THEN [d1 EXCEPT ![date_str].NewWords = Some(event.set_name)]
       ELSE [d1 EXCEPT ![date_str].Reviews = <<ReviewText(event)>>]

\* the loop body keeping the first set learned on a date
PutEvent_first_learn_wins(events_by_date, event) ==
    LET date_str == StrftimeISO(event.date)
        d1 == IF date_str \in DOMAIN events_by_date
              THEN events_by_date
              ELSE events_by_date @@
                   (date_str :> [NewWords |-> None, Reviews |-> <<>>])
    IN IF event.action_type = "learn"
       THEN IF d1[date_str].NewWords = None
            THEN [d1 EXCEPT ![date_str].NewWords = Some(event.set_name)]
            ELSE d1
       ELSE [d1 EXCEPT ![date_str].Reviews = Append(@, ReviewText(event))]

\* the body of the loop of get_events_by_date for one event
PutEvent(events_by_date, event) ==
    LET date_str == StrftimeISO(event.date)
        d1 == IF date_str \in DOMAIN events_by_date
              THEN events_by_date
              ELSE events_by_date @@
                   (date_str :> [NewWords |-> None, Reviews |-> <<>>])
    IN IF event.action_type = "learn"
       THEN [d1 EXCEPT ![date_str].NewWords = Some(event.set_name)]
       ELSE [d1 EXCEPT ![date_str].Reviews = Append(@, ReviewText(event))]

RECURSIVE PutEvents(_, _)
PutEvents(events_by_date, events) ==
    IF events = <<>> THEN events_by_date
    ELSE PutEvents(PutEvent(events_by_date, Head(events)), Tail(events))

RECURSIVE EventsBySetsFrom(_, _, _)
EventsBySetsFrom(events_by_date, ss, i) ==
    IF i > Len(ss) THEN events_by_date
    ELSE EventsBySetsFrom(PutEvents(events_by_date, get_all_events(ss[i])),
                          ss, i + 1)

\* a dict from "%Y-%m-%d" strings to [NewWords, Reviews]
get_events_by_date(ss) == EventsBySetsFrom(<<>>, ss, 1)

\* the records get_activity_list appends for one set
SetActivities(s) ==
    LET learning == get_learning_event(s)
        reviews  == get_review_events(s)
    IN <<[Date   |-> StrftimeISO(learning.date),
          Action |-> <<"L", "e", "a", "r", "n", " ">> \o learning.set_name]>>
       \o [j \in 1..Len(reviews) |->
             [Date   |-> StrftimeISO(reviews[j].date),
              Action |-> <<"R", "e", "v", "i", "e", "w", " ">>
                         \o ReviewText(reviews[j])]]

RECURSIVE ActivitiesFrom(_, _)
ActivitiesFrom(ss, i) ==
    IF i > Len(ss) THEN <<>>
    ELSE SetActivities(ss[i]) \o ActivitiesFrom(ss, i + 1)

RECURSIVE SortedByDate(_)
\* sorted(activities, key=Date), stable
SortedByDate(acts) ==
    IF acts = <<>> THEN <<>>
    ELSE LET i == CHOOSE i \in 1..Len(acts) :
                    \A j \in 1..Len(acts) :
                       /\ ~IsoLess(acts[j].Date, acts[i].Date)
                       /\ acts[j].Date = acts[i].Date => i <= j
         IN <<acts[i]>>
            \o SortedByDate(SubSeq(acts, 1, i - 1) \o SubSeq(acts, i + 1, Len(acts)))

\* the activity list put in date order
get_activity_list_by_date(ss) == SortedByDate(ActivitiesFrom(ss, 1))

get_activity_list(ss) == ActivitiesFrom(ss, 1)

\* Python truth of an optional string: None and "" are false
Truthy(opt) == opt # None /\ opt[1] # <<>>

\* a row numbered without the day offset
DisplayRow_no_offset(start, day_offset, date_str, activities) ==
    LET date       == StrptimeISO(date_str)
        day_number == (date - start) + 1
        ymd        == OrdToYmd(date)
    IN [Date     |-> [b |-> MonthAbbr[ymd[2]], d |-> ymd[3], D |-> day_number],
        NewWords |-> IF Truthy(activities.NewWords)
                     THEN activities.NewWords[1] ELSE <<"-">>,
        Reviews  |-> IF activities.Reviews # <<>>
                     THEN Join(<<",", " ">>, activities.Reviews) ELSE <<"-">>]

\* one row of to_dataframe; the "Date" label f"{%b %d} (D{day_number})" is
\* kept as its three fields
DisplayRow(start, day_offset, date_str, activities) ==
    LET date       == StrptimeISO(date_str)
        day_number == (date - start) + 1 + day_offset
        ymd        == OrdToYmd(date)
    IN [Date     |-> [b |-> MonthAbbr[ymd[2]], d |-> ymd[3], D |-> day_number],
        NewWords |-> IF Truthy(activities.NewWords)
                     THEN activities.NewWords[1] ELSE <<"-">>,
        Reviews  |-> IF activities.Reviews # <<>>
                     THEN Join(<<",", " ">>, activities.Reviews) ELSE <<"-">>]

\* the rows of the DataFrame to_dataframe(day_offset) returns
to_dataframe(ss, start, day_offset) ==
    LET events_by_date == get_events_by_date(ss)
        keys == SortedKeys(DOMAIN events_by_date)
    IN [r \in 1..Len(keys) |->
          DisplayRow(start, day_offset, keys[r], events_by_date[keys[r]])]

G5Schedule_to_dict(ss, start) ==
    [sets          |-> [i \in 1..Len(ss) |-> Set_to_dict(ss[i])],
     start_date    |-> StrftimeISO(start),
     full_schedule |-> get_activity_list(ss)]

\* save_to_json adding the sets of this run to those the file already holds
save_to_json_merge(ss, start) ==
    IF json_file = None THEN Some(G5Schedule_to_dict(ss, start))
    ELSE Some([G5Schedule_to_dict(ss, start) EXCEPT
                 !.sets = json_file[1].sets \o @])

\* the data file after save_to_json(json_path) where open(json_path, "w")
\* succeeds: json.dump replaces whatever the file held
save_to_json(ss, start) == Some(G5Schedule_to_dict(ss, start))

-----------------------------------------------------------------------------
(* Calendar exporter: src/g5/utils/icalendar_export.py *)

RECURSIVE ContainsFrom(_, _, _)
ContainsFrom(needle, hay, i) ==
    IF i + Len(needle) - 1 > Len(hay) THEN FALSE
    ELSE IF SubSeq(hay, i, i + Len(needle) - 1) = needle THEN TRUE
    ELSE ContainsFrom(needle, hay, i + 1)

\* needle in hay, for strings
Contains(needle, hay) == ContainsFrom(needle, hay, 1)

\* the marker and colour the if/elif chain picks for an action; <<>> when no
\* branch matches
ActionClass(action) ==
    IF Contains(<<"L", "e", "a", "r", "n">>, action)
        THEN <<[glyph |-> "book", color |-> "9"]>>
    ELSE IF Contains(<<"(", "R", "1", ")">>, action)
        THEN <<[glyph |-> "magnifier", color |-> "5"]>>
    ELSE IF Contains(<<"(", "R", "2", ")">>, action)
        THEN <<[glyph |-> "arrows", color |-> "5"]>>
    ELSE IF Contains(<<"(", "R", "3", ")">>, action)
        THEN <<[glyph |-> "memo", color |-> "7"]>>
    ELSE IF Contains(<<"(", "R", "4", ")">>, action)
        THEN <<[glyph |-> "check", color |-> "11"]>>
    ELSE <<>>

\* the value of the j-th call of uuid.uuid4() in a process whose random
\* stream is stream: the values of one stream are distinct from call to call
uuid4(stream, j) == <<stream, j>>

\* the Event built for one activity: event.add appends to a property that is
\* already present, so "summary" is the sequence of the values added
ICalEvent(activity, uid) ==
    LET action == activity.Action
        date   == StrptimeISO(activity.Date)
        class  == ActionClass(action)
    IN [summary     |-> <<action>> \o
                        [j \in 1..Len(class) |->
                           <<class[j].glyph, " ">> \o action],
        dtstart     |-> date,
        dtend       |-> date + 1,
        color       |-> [j \in 1..Len(class) |-> class[j].color],
        description |-> <<"G5 Spaced Repetition - ">> \o action,
        uid         |-> uid]

\* the loop with the identifier made once, before it
ICalEvents_one_uid(schedule, stream) ==
    [j \in 1..Len(schedule) |-> ICalEvent(schedule[j], uuid4(stream, 1))]

\* the components of the Calendar export_to_ical builds from the activities:
\* the loop calls uuid4 once for each activity
ICalEvents(schedule, stream) ==
    [j \in 1..Len(schedule) |-> ICalEvent(schedule[j], uuid4(stream, j))]

\* how a call of the exporter can end: the calendar is written; the
\* icalendar package is missing; building the calendar fails; the file is
\* opened for writing and the write fails
ExportOutcomes == {"ok", "ImportError", "Exception", "WriteError"}

\* export_to_ical with the import made outside the try block
export_to_ical_import_escapes(schedule, outcome, stream, old) ==
    [ret    |-> outcome = "ok",
     raised |-> IF outcome = "ImportError" THEN Some("ImportError") ELSE None,
     file   |-> IF outcome = "ok" THEN Some(ICalEvents(schedule, stream))
                ELSE IF outcome = "WriteError" THEN Some(<<>>)
                ELSE old]

\* export_to_ical(schedule, output_file) ending in outcome, the calendar
\* file holding old: the value returned, the exception that leaves the call
\* (none: both handlers return False) and the file afterwards.  A file
\* opened with "wb" whose write fails holds no calendar: Some(<<>>).
export_to_ical(schedule, outcome, stream, old) ==
    [ret    |-> outcome = "ok",
     raised |-> None,
     file   |-> IF outcome = "ok" THEN Some(ICalEvents(schedule, stream))
                ELSE IF outcome = "WriteError" THEN Some(<<>>)
                ELSE old]

\* G5Schedule.export_to_ical(output_file)
G5Schedule_export_to_ical(ss, outcome, stream, old) ==
    export_to_ical(get_activity_list(ss), outcome, stream, old)

-----------------------------------------------------------------------------
(* Calls on a G5Schedule object and its Sets *)

Returned(op, a, v) == [op |-> op, args |-> a, ret |-> Some(v), raised |-> None]
Raised(op, a, e)   == [op |-> op, args |-> a, ret |-> None, raised |-> Some(e)]

\* the value the last call returned
Ret == result.ret[1]

\* the state after G5Schedule(start_date), start_date a parsed date
Init ==
    /\ start_date \in {StrptimeDMY(s) : s \in GoodDateInputs}
    /\ sets = <<>>
    /\ json_file = None
    /\ ics_file = None
    /\ result = Returned("G5Schedule", <<start_date>>, None)
    /\ pc = "start"
    /\ args = None
    /\ prev_run = None

\* schedule.add_new_sets(n, k)
AddNewSets(n, k) ==
    /\ Len(sets) + n <= MaxSets
    /\ sets' = add_new_sets(sets, start_date, n, k)
    /\ result' = Returned("add_new_sets", <<n, k>>, None)
    /\ UNCHANGED <<start_date, json_file, ics_file, pc, args, prev_run>>

\* schedule.sets[i].get_review_events()
GetReviewEvents(i) ==
    /\ result' = Returned("get_review_events", <<i>>, get_review_events(sets[i]))
    /\ UNCHANGED <<start_date, sets, json_file, ics_file, pc, args, prev_run>>

\* schedule.sets[i].get_all_events()
GetAllEvents(i) ==
    /\ result' = Returned("get_all_events", <<i>>, get_all_events(sets[i]))
    /\ UNCHANGED <<start_date, sets, json_file, ics_file, pc, args, prev_run>>

\* schedule.get_events_by_date()
GetEventsByDate ==
    /\ result' = Returned("get_events_by_date", <<>>, get_events_by_date(sets))
    /\ UNCHANGED <<start_date, sets, json_file, ics_file, pc, args, prev_run>>

\* schedule.get_activity_list()
GetActivityList ==
    /\ result' = Returned("get_activity_list", <<>>, get_activity_list(sets))
    /\ UNCHANGED <<start_date, sets, json_file, ics_file, pc, args, prev_run>>

\* schedule.to_dataframe(day_offset)
ToDataframe(day_offset) ==
    /\ result' = Returned("to_dataframe", <<day_offset>>,
                          to_dataframe(sets, start_date, day_offset))
    /\ UNCHANGED <<start_date, sets, json_file, ics_file, pc, args, prev_run>>

\* schedule.sets[i].to_dict()
ToDict(i) ==
    /\ result' = Returned("to_dict", <<i>>, Set_to_dict(sets[i]))
    /\ UNCHANGED <<start_date, sets, json_file, ics_file, pc, args, prev_run>>

\* Set.from_dict(data), data the dictionary the last call returned
FromDict ==
    /\ result.op = "to_dict"
    /\ result' = Returned("from_dict", result.args, Set_from_dict(Ret))
    /\ UNCHANGED <<start_date, sets, json_file, ics_file, pc, args, prev_run>>

Next ==
    \/ \E n \in 0..MaxSets, k \in SetNumbers : AddNewSets(n, k)
    \/ \E i \in 1..Len(sets) : GetReviewEvents(i)
    \/ \E i \in 1..Len(sets) : GetAllEvents(i)
    \/ GetEventsByDate
    \/ GetActivityList
    \/ \E o \in 0..MaxDayOffset : ToDataframe(o)
    \/ \E i \in 1..Len(sets) : ToDict(i)
    \/ FromDict

Spec == Init /\ [][Next]_vars

-----------------------------------------------------------------------------
(* generate_g5_schedule and main: src/g5/cli.py *)

\* every run numbered from day 1
day_offset_none(set_number) == 0

\* the offset that displays a run starting with set_number in the day
\* numbering of the course
day_offset_for(set_number) == set_number - 1

\* generate_g5_schedule checking the counts only after the schedule was saved
generate_g5_schedule_save_first(start_date_str, new_sets, set_number, io_ok, old) ==
    LET failed(e, file) == [raised |-> Some(e), start_date |-> 0, sets |-> <<>>,
                            df |-> <<>>, json |-> file]
    IN IF ~ParsesDMY(start_date_str) THEN failed("ValueError: time data", old)
       ELSE LET given_date == StrptimeDMY(start_date_str)
                ss == add_new_sets(<<>>, given_date, new_sets, set_number)
                new == IF io_ok THEN save_to_json(ss, given_date) ELSE old
            IN IF ~io_ok THEN failed("OSError", old)
               ELSE IF new_sets <= 0
                    THEN failed("ValueError: Number of new sets must be positive", new)
               ELSE IF set_number < 1
                    THEN failed("ValueError: Set number must be positive", new)
               ELSE [raised     |-> None,
                     start_date |-> given_date,
                     sets       |-> ss,
                     df         |-> to_dataframe(ss, given_date,
                                                 day_offset_for(set_number)),
                     json       |-> new]

\* generate_g5_schedule(start_date_str, new_sets, set_number, json_path,
\* return_schedule=True) with the data file holding old; io_ok says whether
\* open(json_path, "w") succeeds.  The value tells how the call ended
\* (raised: <<>> or the exception), the schedule built, the table returned
\* and the content of the data file afterwards.
generate_g5_schedule(start_date_str, new_sets, set_number, io_ok, old) ==
    LET failed(e) == [raised |-> Some(e), start_date |-> 0, sets |-> <<>>,
                      df |-> <<>>, json |-> old]
    IN IF ~ParsesDMY(start_date_str) THEN failed("ValueError: time data")
       ELSE IF new_sets <= 0
            THEN failed("ValueError: Number of new sets must be positive")
       ELSE IF set_number < 1
            THEN failed("ValueError: Set number must be positive")
       ELSE LET given_date == StrptimeDMY(start_date_str)
                ss == add_new_sets(<<>>, given_date, new_sets, set_number)
            IN IF ~io_ok THEN failed("OSError")
               ELSE [raised     |-> None,
                     start_date |-> given_date,
                     sets       |-> ss,
                     df         |-> to_dataframe(ss, given_date,
                                                 day_offset_for(set_number)),
                     json       |-> save_to_json(ss, given_date)]

\* the command lines tried: [start_date, num_sets, set_number, calendar]
Args ==
    [start_date : CliDateInputs, num_sets : (-1)..MaxCount,
     set_number : CliSetNumbers, calendar : BOOLEAN]

\* what main() returned: df is <<>> for None; a is the command line, kept
\* only with a table; caught is the exception main caught and printed (its
\* message does not show the command line); exported is what export_to_ical
\* returned, if it was called, and outcome how that call ended; instructions
\* says whether the import instructions were printed
MainReturned(a, df, caught, exported, outcome, instructions) ==
    [op |-> "main", args |-> a, ret |-> Some(df), raised |-> None,
     caught |-> caught, exported |-> exported, outcome |-> outcome,
     instructions |-> instructions]

\* no call made yet in this process
NoResult == [op |-> "", args |-> <<>>, ret |-> None, raised |-> None]

\* a process about to run main(); no data file, no calendar file
InitCLI ==
    /\ start_date = 0
    /\ sets = <<>>
    /\ json_file = None
    /\ ics_file = None
    /\ result = NoResult
    /\ pc = "start"
    /\ args = None
    /\ prev_run = None

\* main() from parse_args through generate_g5_schedule: on an exception
\* main prints it and returns None
MainGenerate(a, io_ok) ==
    /\ pc = "start"
    /\ \E g \in {generate_g5_schedule(a.start_date, a.num_sets, a.set_number,
                                       io_ok, json_file)} :
          /\ json_file' = g.json
          /\ IF g.raised = None
             THEN /\ pc' = "generated"
                  /\ start_date' = g.start_date
                  /\ sets' = g.sets
                  /\ args' = Some(a)
                  /\ result' = Returned("generate_g5_schedule", a, g.df)
             ELSE /\ pc' = "done"
                  /\ args' = None
                  /\ result' = MainReturned(None, <<>>, g.raised, None, None, FALSE)
                  /\ UNCHANGED <<start_date, sets>>
    /\ UNCHANGED <<ics_file, prev_run>>

\* main() after generate_g5_schedule returned: the table is printed, the
\* calendar is exported if asked for, the import instructions are printed if
\* the exporter returned True, and the table is returned; an exception
\* leaving the exporter would be caught like one of the generation
MainExport(outcome, stream) ==
    /\ pc = "generated"
    /\ pc' = "done"
    /\ args' = None
    /\ IF args[1].calendar
       THEN \E x \in {G5Schedule_export_to_ical(sets, outcome, stream, ics_file)} :
              /\ ics_file' = x.file
              /\ result' = IF x.raised = None
                           THEN MainReturned(args[1], Ret, None, Some(x.ret),
                                             Some(outcome), x.ret)
                           ELSE MainReturned(None, <<>>, x.raised, None,
                                             Some(outcome), FALSE)
       ELSE /\ ics_file' = ics_file
            /\ result' = MainReturned(args[1], Ret, None, None, None, FALSE)
    /\ UNCHANGED <<start_date, sets, json_file, prev_run>>

\* the process ends; the next invocation finds the files as they are
Exit ==
    /\ pc = "done"
    /\ pc' = "start"
    /\ start_date' = 0
    /\ sets' = <<>>
    /\ result' = NoResult
    /\ UNCHANGED <<json_file, ics_file, args, prev_run>>

NextCLI ==
    \/ \E a \in Args, io_ok \in BOOLEAN :
         MainGenerate(a, io_ok)
    \/ \E outcome \in ExportOutcomes, stream \in UuidStreams :
         MainExport(outcome, stream)
    \/ Exit

SpecCLI == InitCLI /\ [][NextCLI]_vars

-----------------------------------------------------------------------------
(* Successive runs of generate_g5_schedule on the same data file *)

\* the arguments tried: [start_date, num_sets, set_number]
CourseArgs ==
    [start_date : CourseDateInputs, num_sets : 0..MaxCount,
     set_number : CourseSetNumbers]

\* the last call returned a table
Generated == result.op = "generate_g5_schedule" /\ result.raised = None

\* one run: generate_g5_schedule(a.start_date, a.num_sets, a.set_number,
\* json_path, return_schedule=True); prev_run keeps the call before it that
\* returned a table
Generate(a, io_ok) ==
    /\ \E g \in {generate_g5_schedule(a.start_date, a.num_sets, a.set_number,
                                       io_ok, json_file)} :
          /\ json_file' = g.json
          /\ IF g.raised = None
             THEN /\ start_date' = g.start_date
                  /\ sets' = g.sets
                  /\ result' = Returned("generate_g5_schedule", a, g.df)
             ELSE /\ result' = Raised("generate_g5_schedule", None, g.raised[1])
                  /\ UNCHANGED <<start_date, sets>>
    /\ prev_run' = IF Generated THEN Some(result) ELSE prev_run
    /\ UNCHANGED <<ics_file, pc, args>>

NextCourse == \E a \in CourseArgs, io_ok \in BOOLEAN : Generate(a, io_ok)

SpecCourse == InitCLI /\ [][NextCourse]_vars

-----------------------------------------------------------------------------
(* Properties of Set and G5Schedule, checked under Spec *)

\* the review intervals in days after learning, as the specification gives them
SpecReviewOffsets == <<1, 3, 7, 14>>

\* events is R1..R4 of set s: four review events, numbered in order, dated
\* learn_date + 1, + 3, + 7, + 14
IsReviewsOf(events, s) ==
    /\ Len(events) = 4
    /\ \A j \in 1..4 :
         /\ events[j].action_type = "review"
         /\ events[j].review_number = j
         /\ events[j].set_name = s.name
         /\ events[j].date = s.learn_date + SpecReviewOffsets[j]
         /\ events[j].date > s.learn_date
    /\ \A j \in 1..3 : events[j].date < events[j + 1].date

\* C1: for every Set, review_events() returns exactly 4 events R1..R4 in
\* that order, dated learn_date + 1, + 3, + 7, + 14, hence strictly
\* increasing and all after the learn date; all_events() is the learning
\* event followed by these four.
C1_ReviewEvents ==
    /\ result.op = "get_review_events"
         => IsReviewsOf(Ret, sets[result.args[1]])
    /\ result.op = "get_all_events"
         => LET s == sets[result.args[1]]
            IN /\ Len(Ret) = 5
               /\ Ret[1].action_type = "learn"
               /\ Ret[1].date = s.learn_date
               /\ Ret[1].set_name = s.name
               /\ IsReviewsOf(SubSeq(Ret, 2, 5), s)

\* all_events() was called on a set whose reviews run into the next month
C1_Witness ==
    /\ result.op = "get_all_events"
    /\ OrdToYmd(Ret[1].date)[2] # OrdToYmd(Ret[5].date)[2]

RECURSIVE DigitsValue(_)
\* the number a sequence of decimal digit characters writes
DigitsValue(ds) ==
    IF ds = <<>> THEN 0
    ELSE DigitsValue(SubSeq(ds, 1, Len(ds) - 1)) * 10
         + ((CHOOSE v \in 1..10 : DigitChars[v] = ds[Len(ds)]) - 1)

\* name is "Set " followed by number m zero-padded to at least 2 digits
IsSetNameOf(name, m) ==
    LET ds == SubSeq(name, 5, Len(name))
    IN /\ SubSeq(name, 1, 4) = <<"S", "e", "t", " ">>
       /\ Len(ds) >= 2
       /\ \A j \in 1..Len(ds) : \E v \in 1..10 : DigitChars[v] = ds[j]
       /\ DigitsValue(ds) = m
       /\ Len(ds) > 2 => ds[1] # "0"

\* C2: add_new_sets(n, k) with n >= 1 appends exactly n sets to the end of the
\* set list and leaves the sets already present unchanged; the i-th appended
\* set (i = 0..n-1) has learn date start_date + i and is named "Set " followed
\* by k + i zero-padded to at least 2 digits.
C2_AddNewSets ==
    [][(result'.op = "add_new_sets" /\ result'.args[1] >= 1)
         => LET n == result'.args[1]
                k == result'.args[2]
            IN /\ Len(sets') = Len(sets) + n
               /\ SubSeq(sets', 1, Len(sets)) = sets
               /\ \A i \in 0..(n - 1) :
                    /\ sets'[Len(sets) + i + 1].learn_date = start_date + i
                    /\ IsSetNameOf(sets'[Len(sets) + i + 1].name, k + i)
      ]_vars

\* add_new_sets(2, 99) appended "Set 99" and "Set 100" to a schedule that
\* already held a set named "Set 01"
C2_Witness ==
    /\ result.op = "add_new_sets"
    /\ result.args = <<2, 99>>
    /\ sets[1].name = <<"S", "e", "t", " ", "0", "1">>
    /\ Len(sets) = 3

\* C3 as stated: in every reachable state, after any sequence of
\* add_new_sets calls, the set at position i (from 0) of the set list has
\* learn date start_date + i.
C3_Original ==
    \A p \in 1..Len(sets) : sets[p].learn_date = start_date + (p - 1)

\* C3 amended: after one add_new_sets call on a new schedule the set at
\* position i has learn date start_date + i; every call starts again at
\* start_date, so after further calls the set at position i has a learn date
\* from start_date to start_date + i.
C3_SetDates ==
    /\ (result.op = "add_new_sets" /\ result.args[1] = Len(sets))
         => \A p \in 1..Len(sets) : sets[p].learn_date = start_date + (p - 1)
    /\ \A p \in 1..Len(sets) :
         /\ sets[p].learn_date >= start_date
         /\ sets[p].learn_date <= start_date + (p - 1)

\* one call filled a new schedule with three sets
C3_Witness ==
    /\ result.op = "add_new_sets"
    /\ result.args[1] = 3
    /\ Len(sets) = 3

\* the review slots of the schedule in processing order: slot q is review
\* number ((q - 1) % 4) + 1 of the set at position ((q - 1) \div 4) + 1
SlotSet(q) == sets[((q - 1) \div 4) + 1]
SlotReview(q) == ((q - 1) % 4) + 1
SlotDate(q) == SlotSet(q).learn_date + SpecReviewOffsets[SlotReview(q)]
SlotLabel(q) ==
    SlotSet(q).name \o <<" ", "(", "R", DigitChars[SlotReview(q) + 1], ")">>

RECURSIVE SlotLabelsOn(_, _)
\* the labels of the review slots q.. that fall on the date of key, in order
SlotLabelsOn(key, q) ==
    IF q > 4 * Len(sets) THEN <<>>
    ELSE (IF StrftimeISO(SlotDate(q)) = key THEN <<SlotLabel(q)>> ELSE <<>>)
         \o SlotLabelsOn(key, q + 1)

RECURSIVE SumLen(_, _)
\* the total length of the Reviews lists of the entries with keys in K
SumLen(dict, K) ==
    IF K = {} THEN 0
    ELSE LET key == CHOOSE x \in K : TRUE
         IN Len(dict[key].Reviews) + SumLen(dict, K \ {key})

\* C4: events_by_date() never loses or overwrites a review: every review
\* event of every set appears exactly once, as "<set name> (Rk)", in the
\* reviews list of the entry keyed by the event's own date and in no other
\* entry (4 labels per set in all); within one list the labels are ordered by
\* set position and then review number.
C4_ReviewsAccumulate ==
    result.op = "get_events_by_date"
      => /\ \A q \in 1..(4 * Len(sets)) :
              StrftimeISO(SlotDate(q)) \in DOMAIN Ret
         /\ \A key \in DOMAIN Ret : Ret[key].Reviews = SlotLabelsOn(key, 1)
         /\ SumLen(Ret, DOMAIN Ret) = 4 * Len(sets)

\* events_by_date() was called on a schedule where one date's list holds
\* three reviews: two of sets with the same name, then one of another set
C4_Witness ==
    /\ result.op = "get_events_by_date"
    /\ \E key \in DOMAIN Ret :
         /\ Len(Ret[key].Reviews) = 3
         /\ Ret[key].Reviews[1] = Ret[key].Reviews[2]
         /\ Ret[key].Reviews[2] # Ret[key].Reviews[3]

\* positions p < q of the set list hold sets learned on the same date
SameLearnDate(p, q) ==
    /\ p \in 1..Len(sets)
    /\ q \in 1..Len(sets)
    /\ p < q
    /\ sets[p].learn_date = sets[q].learn_date

\* the set at position q is the last of the list learned on its date
LastOnDate(q) == \A r \in (q + 1)..Len(sets) : ~SameLearnDate(q, r)

\* C5 as stated: when two sets have their learning event on the same date,
\* the new-words slot of that date holds only the name of the later set, the
\* earlier set's name appears in no new-words slot, and no error is raised.
C5_Original ==
    result.op = "get_events_by_date"
      => /\ result.raised = None
         /\ \A p, q \in 1..Len(sets) :
              (SameLearnDate(p, q) /\ LastOnDate(q))
                => /\ Ret[StrftimeISO(sets[q].learn_date)].NewWords
                        = Some(sets[q].name)
                   /\ \A key \in DOMAIN Ret :
                        Ret[key].NewWords # Some(sets[p].name)

\* C5 amended: when two sets have their learning event on the same date, the
\* new-words slot of that date holds only the name of the set that comes
\* last in the set list among those learned that day, and no error is
\* raised; the earlier set's name appears in no new-words slot unless a set
\* that is the last one learned on its date has the same name.
C5_LaterLearnWins ==
    result.op = "get_events_by_date"
      => /\ result.raised = None
         /\ \A p, q \in 1..Len(sets) :
              (SameLearnDate(p, q) /\ LastOnDate(q))
                => /\ Ret[StrftimeISO(sets[q].learn_date)].NewWords
                        = Some(sets[q].name)
                   /\ (\A r \in 1..Len(sets) :
                         LastOnDate(r) => sets[r].name # sets[p].name)
                        => \A key \in DOMAIN Ret :
                             Ret[key].NewWords # Some(sets[p].name)

\* events_by_date() was called on a schedule with two sets of different
\* names learned on the same date
C5_Witness ==
    /\ result.op = "get_events_by_date"
    /\ \E p, q \in 1..Len(sets) :
         /\ SameLearnDate(p, q)
         /\ LastOnDate(q)
         /\ \A r \in 1..Len(sets) : LastOnDate(r) => sets[r].name # sets[p].name

\* the dates touched by a learning or review event of any set
EventDates ==
    {sets[p].learn_date + o : p \in 1..Len(sets), o \in {0, 1, 3, 7, 14}}

\* the r-th earliest event date
EventDateAt(r) ==
    CHOOSE e \in EventDates : Cardinality({x \in EventDates : x < e}) = r - 1

\* C6: to_table(day_offset) has exactly one row per distinct date touched by
\* a learning or review event of any set and no other rows, in strictly
\* ascending date order; the row count is the number of distinct event
\* dates, which is 5 for a single-set schedule.
C6_OneRowPerDate ==
    result.op = "to_dataframe"
      => /\ Len(Ret) = Cardinality(EventDates)
         /\ \A r \in 1..Len(Ret) :
              /\ Ret[r].Date.b = MonthAbbr[OrdToYmd(EventDateAt(r))[2]]
              /\ Ret[r].Date.d = OrdToYmd(EventDateAt(r))[3]
         /\ Len(sets) = 1 => Len(Ret) = 5

\* to_dataframe was called on a schedule whose sets share event dates and
\* whose rows run from December into January
C6_Witness ==
    /\ result.op = "to_dataframe"
    /\ Len(sets) >= 2
    /\ Len(Ret) < 5 * Len(sets)
    /\ Ret[1].Date.b = "Dec"
    /\ Ret[Len(Ret)].Date.b = "Jan"

\* C7: in every row of to_table(day_offset) the day number is
\* (row date - start_date in days) + 1 + day_offset; so the start date is
\* labelled D(1 + day_offset), day numbers increase along the rows, and one
\* set starting at D1 gives the rows D1 (learn), D2 (R1), D4 (R2), D8 (R3),
\* D15 (R4).
C7_DayNumbers ==
    result.op = "to_dataframe"
      => LET day_offset == result.args[1]
         IN /\ \A r \in 1..Len(Ret) :
                 Ret[r].Date.D = (EventDateAt(r) - start_date) + 1 + day_offset
            /\ \A r \in 1..Len(Ret) :
                 EventDateAt(r) = start_date => Ret[r].Date.D = 1 + day_offset
            /\ \A r \in 1..(Len(Ret) - 1) : Ret[r].Date.D < Ret[r + 1].Date.D
            /\ (Len(sets) = 1 /\ day_offset = 0)
                 => /\ [r \in 1..Len(Ret) |-> Ret[r].Date.D] = <<1, 2, 4, 8, 15>>
                    /\ Ret[1].NewWords = sets[1].name
                    /\ \A r \in 2..5 :
                         /\ Ret[r].NewWords = <<"-">>
                         /\ Ret[r].Reviews =
                              sets[1].name
                              \o <<" ", "(", "R", DigitChars[r], ")">>

\* to_dataframe(1) was called on a schedule of one set
C7_Witness ==
    /\ result.op = "to_dataframe"
    /\ result.args[1] = 1
    /\ Len(sets) = 1
    /\ Ret[1].Date.D = 2


\* the dates of a list of events
DatesOf(events) == [j \in 1..Len(events) |-> events[j].date]

\* C15: round trip of the persisted form: for every set s of a schedule made
\* from a parsed start date, Set.from_dict(s.to_dict()) has the same name and
\* the same learn date as s and hence the same four review dates, and the
\* review dates stored in to_dict()["review_days"] are the dates of
\* s.review_events() in order.
C15_RoundTrip ==
    /\ result.op = "to_dict"
         => LET s      == sets[result.args[1]]
                events == get_review_events(s)
            IN /\ Len(Ret.review_days) = 4
               /\ Len(events) = 4
               /\ \A j \in 1..4 :
                    /\ Ret.review_days[j] = StrftimeISO(events[j].date)
                    /\ StrptimeISO(Ret.review_days[j]) = events[j].date
    /\ result.op = "from_dict"
         => LET s == sets[result.args[1]]
            IN /\ Ret.name = s.name
               /\ Ret.learn_date = s.learn_date
               /\ DatesOf(get_review_events(Ret)) = DatesOf(get_review_events(s))
               /\ DatesOf(get_review_events(Ret))
                    = [j \in 1..4 |-> s.learn_date + SpecReviewOffsets[j]]

\* a set learned on the leap day 2024-02-29 was written with to_dict() and
\* read back with from_dict
C15_Witness ==
    /\ result.op = "from_dict"
    /\ OrdToYmd(sets[result.args[1]].learn_date) = <<2024, 2, 29>>
    /\ Ret.learn_date = YmdToOrd(2024, 2, 29)

-----------------------------------------------------------------------------
(* Properties of generate_g5_schedule and main *)

\* two tables give the same day number to every date both show
AgreeOnCommonDates(df1, df2) ==
    \A r1 \in 1..Len(df1), r2 \in 1..Len(df2) :
       (df1[r1].Date.b = df2[r2].Date.b /\ df1[r1].Date.d = df2[r2].Date.d)
         => df1[r1].Date.D = df2[r2].Date.D

\* run (d1, n1, k1) is continued by run (d2, n2, k2): the follow-up starts
\* n1 days later with set number k1 + n1
FollowsUp(d1, n1, k1, d2, k2) == d2 = d1 + n1 /\ k2 = k1 + n1

\* C8: day numbering is continuous across runs of the same course: the run
\* generate(d, n, k) and its follow-up generate(d + n, m, k + n) give every
\* date of both tables the same day number, and both agree with the single
\* run generate(d, n + m, k); each set's learning row has the day number
\* equal to the set's display number.
C8_ContinuousDays ==
    Generated
      => /\ \A p \in 1..Len(sets) :
              /\ \E r \in 1..Len(Ret) : Ret[r].NewWords = sets[p].name
              /\ \A r \in 1..Len(Ret) :
                   Ret[r].NewWords = sets[p].name
                     => Ret[r].Date.D = result.args.set_number + (p - 1)
         /\ prev_run # None
              => LET d1 == StrptimeDMY(prev_run[1].args.start_date)
                     n1 == prev_run[1].args.num_sets
                     k1 == prev_run[1].args.set_number
                     d2 == StrptimeDMY(result.args.start_date)
                     n2 == result.args.num_sets
                     k2 == result.args.set_number
                 IN (\/ FollowsUp(d1, n1, k1, d2, k2)
                     \/ d1 = d2 /\ k1 = k2
                     \/ \E n \in 1..(n1 - 1) :
                          FollowsUp(d1, n, k1, d2, k2) /\ n2 = n1 - n)
                      => AgreeOnCommonDates(prev_run[1].ret[1], Ret)

\* a run of 2 sets was followed by its follow-up run, and both tables show
\* the follow-up's start date
C8_Witness ==
    /\ Generated
    /\ prev_run # None
    /\ prev_run[1].args.num_sets = 2
    /\ FollowsUp(StrptimeDMY(prev_run[1].args.start_date), 2,
                 prev_run[1].args.set_number,
                 StrptimeDMY(result.args.start_date), result.args.set_number)
    /\ \E r \in 1..Len(prev_run[1].ret[1]) :
         /\ prev_run[1].ret[1][r].Date.b = Ret[1].Date.b
         /\ prev_run[1].ret[1][r].Date.d = Ret[1].Date.d

\* the j-th record of the flat list: the sets in list order, each giving
\* Learn, R1, R2, R3, R4
FlatRecord(j) ==
    LET s == sets[((j - 1) \div 5) + 1]
        e == (j - 1) % 5
    IN IF e = 0
       THEN [Date   |-> StrftimeISO(s.learn_date),
             Action |-> <<"L", "e", "a", "r", "n", " ">> \o s.name]
       ELSE [Date   |-> StrftimeISO(s.learn_date + SpecReviewOffsets[e]),
             Action |-> <<"R", "e", "v", "i", "e", "w", " ">> \o s.name
                        \o <<" ", "(", "R", DigitChars[e + 1], ")">>]

\* C9: the flat activity list (full_schedule) has exactly 5 records per set,
\* ordered by set-list position and within a set as Learn, R1, R2, R3, R4; it
\* is not re-sorted by date (with 2 or more consecutive sets its dates are not
\* non-decreasing); the list to_dict() writes to the data file is the list, in
\* the same order, that export_calendar passes to the exporter.
C9_FullSchedule ==
    /\ pc = "generated"
         => /\ json_file # None
            /\ LET fs == json_file[1].full_schedule
               IN /\ Len(fs) = 5 * Len(sets)
                  /\ \A j \in 1..Len(fs) : fs[j] = FlatRecord(j)
                  /\ Len(sets) >= 2
                       => \E j \in 1..(Len(fs) - 1) :
                            IsoLess(fs[j + 1].Date, fs[j].Date)
    /\ (result.op = "main" /\ result.exported = Some(TRUE))
         => /\ json_file # None
            /\ ics_file # None
            /\ LET fs == json_file[1].full_schedule
               IN /\ Len(ics_file[1]) = Len(fs)
                  /\ \A j \in 1..Len(fs) :
                       /\ ics_file[1][j].summary[1] = fs[j].Action
                       /\ ics_file[1][j].dtstart = StrptimeISO(fs[j].Date)

\* a run for 2 sets wrote the data file and exported the calendar
C9_Witness ==
    /\ result.op = "main"
    /\ result.exported = Some(TRUE)
    /\ Len(sets) = 2
    /\ Len(ics_file[1]) = 10

\* C10: a generation call with an unparsable start date, new_sets <= 0 or
\* set_number < 1 is rejected with an error before any file is written: the
\* data file is left as it was, no schedule or table is returned, and the
\* calendar file is never written.
C10_RejectedBeforeWrite ==
    /\ [](pc = "generated"
            => /\ ParsesDMY(args[1].start_date)
               /\ args[1].num_sets > 0
               /\ args[1].set_number >= 1)
    /\ [][(pc = "start" /\ pc' = "done")
            => /\ json_file' = json_file
               /\ ics_file' = ics_file
               /\ result'.op = "main"
               /\ result'.ret = Some(None)
               /\ result'.caught # None
               /\ result'.exported = None
         ]_vars

\* a run was rejected for its set number and left the data file of an
\* earlier run in place
C10_Witness ==
    /\ pc = "done"
    /\ result.caught = Some("ValueError: Set number must be positive")
    /\ json_file # None
    /\ ics_file # None

\* the data file holds exactly the schedule of the run with command line a:
\* its start date, a.num_sets sets numbered from a.set_number and learned on
\* consecutive days from the start date, each with its four review dates,
\* and the 5 records per set of the schedule in memory
HoldsRun(file, a) ==
    /\ file # None
    /\ LET data == file[1]
           d    == StrptimeDMY(a.start_date)
       IN /\ data.start_date
               = <<a.start_date[3], a.start_date[2], a.start_date[1]>>
          /\ Len(data.sets) = a.num_sets
          /\ \A i \in 1..a.num_sets :
               /\ IsSetNameOf(data.sets[i].set, a.set_number + (i - 1))
               /\ data.sets[i].learned_on = OrdToYmd(d + (i - 1))
               /\ data.sets[i].review_days
                    = [j \in 1..4 |->
                         OrdToYmd(d + (i - 1) + SpecReviewOffsets[j])]
          /\ Len(data.full_schedule) = 5 * a.num_sets
          /\ \A j \in 1..Len(data.full_schedule) :
               data.full_schedule[j] = FlatRecord(j)

C12_OneEventPerActivity ==
    (result.op = "main" /\ result.exported = Some(TRUE))
      => /\ ics_file # None
         /\ LET events == ics_file[1]
                k      == 5 * Len(sets)
            IN /\ Len(events) = k
               /\ \A j \in 1..k :
                    /\ events[j].summary[1] = FlatRecord(j).Action
                    /\ OrdToYmd(events[j].dtstart) = FlatRecord(j).Date
                    /\ events[j].dtend = events[j].dtstart + 1
               /\ \A i, j \in 1..k :
                    i # j => events[i].uid # events[j].uid

\* the 5 activities of one set were exported as 5 events, one of them ending
\* on the first day of the next month
C12_Witness ==
    /\ result.op = "main"
    /\ result.exported = Some(TRUE)
    /\ Len(sets) = 1
    /\ Len(ics_file[1]) = 5
    /\ \E j \in 1..5 :
         /\ OrdToYmd(ics_file[1][j].dtend)[3] = 1
         /\ OrdToYmd(ics_file[1][j].dtend)[2]
              # OrdToYmd(ics_file[1][j].dtstart)[2]

\* the text whose presence in the action picks the class of kind e: 0 is
\* Learn, 1..4 are the reviews R1..R4
KindText(e) ==
    IF e = 0 THEN <<"L", "e", "a", "r", "n">>
    ELSE <<"(", "R", DigitChars[e + 1], ")">>

\* C13: for every activity a schedule can produce, the exported event's
\* title is the activity's action text prefixed with the glyph of its kind,
\* the kind being chosen by substring match on the action: a Learn activity
\* gets the Learn class and a review activity Rk the class of "(Rk)", and
\* the five kinds have five pairwise distinct marker/colour classes.
C13_Original ==
    (result.op = "main" /\ result.exported = Some(TRUE))
      => /\ \A j \in 1..Len(ics_file[1]) :
              LET action == FlatRecord(j).Action
                  class  == ActionClass(action)
              IN /\ class # <<>>
                 /\ class = ActionClass(KindText((j - 1) % 5))
                 /\ ics_file[1][j].color = <<class[1].color>>
                 /\ ics_file[1][j].summary
                      = <<<<class[1].glyph, " ">> \o action>>
         /\ \A e1, e2 \in 0..4 :
              e1 # e2 => ActionClass(KindText(e1)) # ActionClass(KindText(e2))

\* C14: the calendar exporter fails non-fatally: if the calendar-format
\* dependency is missing or building or writing the file fails,
\* export_to_ical returns False and raises nothing to its caller; it returns
\* True only after the whole calendar has been written; in the CLI a False
\* result only suppresses the import instructions, and the run still returns
\* the table.
C14_ExportNonFatal ==
    [][(pc = "generated" /\ pc' = "done")
         => /\ result'.op = "main"
            /\ result'.caught = None
            /\ Ret # <<>>
            /\ result'.ret = Some(Ret)
            /\ args[1].calendar
                 => /\ result'.outcome # None
                    /\ result'.exported
                         = Some(result'.outcome = Some("ok"))
                    /\ result'.instructions = (result'.exported = Some(TRUE))
                    /\ result'.exported = Some(TRUE)
                         => /\ ics_file' # None
                            /\ Len(ics_file'[1]) = 5 * Len(sets)
                            /\ \A j \in 1..(5 * Len(sets)) :
                                 ics_file'[1][j].summary[1]
                                   = FlatRecord(j).Action
            /\ ~args[1].calendar
                 => /\ result'.exported = None
                    /\ ~result'.instructions
                    /\ ics_file' = ics_file
      ]_vars

\* the write of the calendar failed after the file was opened: the exporter
\* returned False, no instructions were printed, and main returned the table
C14_Witness ==
    /\ pc = "done"
    /\ result.op = "main"
    /\ result.outcome = Some("WriteError")
    /\ result.exported = Some(FALSE)
    /\ ~result.instructions
    /\ ics_file = Some(<<>>)
    /\ result.ret # Some(<<>>)

\* the rows of table df whose new-words cell is name
RowsNaming(df, name) == {r \in 1..Len(df) : df[r].NewWords = name}

\* C16: on the path the CLI uses (one add_new_sets(n, k) call on a new
\* schedule, n >= 1) no two sets share a learn date, so the new-words
\* overwrite never occurs: every set's name is the new-words cell of exactly
\* one table row, the row of its learn date; exactly n rows have a new-words
\* cell other than "-"; no set is missing from the table.
C16_SingleCallNoOverwrite ==
    Generated
      => LET n == result.args.num_sets
         IN /\ n >= 1
            /\ Len(sets) = n
            /\ \A p, q \in 1..n :
                 p # q => sets[p].learn_date # sets[q].learn_date
            /\ \A p \in 1..n :
                 /\ Cardinality(RowsNaming(Ret, sets[p].name)) = 1
                 /\ \A r \in RowsNaming(Ret, sets[p].name) :
                      LET ymd == OrdToYmd(sets[p].learn_date)
                      IN /\ Ret[r].Date.b = MonthAbbr[ymd[2]]
                         /\ Ret[r].Date.d = ymd[3]
                         /\ Ret[r].Date.D - (result.args.set_number - 1)
                              = (sets[p].learn_date - start_date) + 1
            /\ Cardinality({r \in 1..Len(Ret) : Ret[r].NewWords # <<"-">>}) = n

\* a run for 2 sets returned a table whose first two rows name the two sets,
\* the second row also holding the first review of the first set
C16_Witness ==
    /\ Generated
    /\ result.args.num_sets = 2
    /\ Ret[1].NewWords = sets[1].name
    /\ Ret[2].NewWords = sets[2].name
    /\ Ret[2].Reviews # <<"-">>

====
